---------------------------- MODULE Spec2Model ----------------------------
(***************************************************************************)
(* SmartStock (src/app.py): a Streamlit script that keeps a shopping list, *)
(* a pantry and a purchase history in one JSON snapshot, parses free-text  *)
(* shopping entries, learns item lifespans from the history and flags      *)
(* pantry items that are due for restocking.                               *)
(*                                                                         *)
(* A Python str is modelled as a sequence of one-character strings, a      *)
(* "YYYY-MM-DD" date string as the tuple <<year, month, day>> of its three *)
(* numeric fields, and a datetime.date as its proleptic Gregorian ordinal. *)
(***************************************************************************)
EXTENDS Integers, Sequences, FiniteSets

(***************************************************************************)
(* Bounds of the model.                                                    *)
(***************************************************************************)
\* number of clock ticks after the first day of the window
MaxDay == 4
\* longest shopping list the user builds
MaxList == 2
\* longest purchase history
MaxHist == 3
\* longest raw text handed to the parser on its own
MaxText == 4
\* most pantry entries of a loaded snapshot
MaxPantry == 2
\* longest history of a loaded snapshot that also holds a pantry
MaxScanHist == 2

(***************************************************************************)
(* Characters and strings.                                                 *)
(***************************************************************************)
LowerCase ==
    << "a", "b", "c", "d", "e", "f", "g", "h", "i", "j", "k", "l", "m",
       "n", "o", "p", "q", "r", "s", "t", "u", "v", "w", "x", "y", "z" >>

UpperCase ==
    << "A", "B", "C", "D", "E", "F", "G", "H", "I", "J", "K", "L", "M",
       "N", "O", "P", "Q", "R", "S", "T", "U", "V", "W", "X", "Y", "Z" >>

DigitChars == << "0", "1", "2", "3", "4", "5", "6", "7", "8", "9" >>

\* the characters of the model in code-point order: space, parentheses,
\* digits, upper case, lower case
CodePoints == << " ", "(", ")" >> \o DigitChars \o UpperCase \o LowerCase

Range(s) == { s[i] : i \in 1..Len(s) }

IndexIn(c, s) == CHOOSE i \in 1..Len(s) : s[i] = c

Ord(c) == IndexIn(c, CodePoints)

IsDigit(c) == c \in Range(DigitChars)

IsLower(c) == c \in Range(LowerCase)

IsUpper(c) == c \in Range(UpperCase)

IsLetter(c) == IsLower(c) \/ IsUpper(c)

IsSpace(c) == c = " "

ToUpper(c) == IF IsLower(c) THEN UpperCase[IndexIn(c, LowerCase)] ELSE c

ToLower(c) == IF IsUpper(c) THEN LowerCase[IndexIn(c, UpperCase)] ELSE c

\* s[i..] starts with t
StartsAt(s, i, t) ==
    /\ i + Len(t) - 1 <= Len(s)
    /\ \A k \in 1..Len(t) : s[i + k - 1] = t[k]

\* str.__lt__: lexicographic by code point
RECURSIVE StrLess(_, _)
StrLess(a, b) ==
    IF b = << >> THEN FALSE
    ELSE IF a = << >> THEN TRUE
    ELSE IF a[1] # b[1] THEN Ord(a[1]) < Ord(b[1])
    ELSE StrLess(Tail(a), Tail(b))

\* str.strip(): drop leading and trailing whitespace
RECURSIVE LStrip(_)
LStrip(s) ==
    IF s # << >> /\ IsSpace(s[1]) THEN LStrip(Tail(s)) ELSE s

RECURSIVE RStrip(_)
RStrip(s) ==
    IF s # << >> /\ IsSpace(s[Len(s)])
    THEN RStrip(SubSeq(s, 1, Len(s) - 1)) ELSE s

Strip(s) == RStrip(LStrip(s))

\* str.replace(old, ""): every non-overlapping occurrence of old, scanning
\* from the left, is removed
RECURSIVE RemoveAllFrom(_, _, _)
RemoveAllFrom(s, i, old) ==
    IF i > Len(s) THEN << >>
    ELSE IF StartsAt(s, i, old) THEN RemoveAllFrom(s, i + Len(old), old)
    ELSE << s[i] >> \o RemoveAllFrom(s, i + 1, old)

\* fault: at most one occurrence is removed (str.replace(old, "", 1))
RECURSIVE RemoveFirstFrom(_, _, _)
RemoveFirstFrom(s, i, old) ==
    IF i > Len(s) THEN << >>
    ELSE IF StartsAt(s, i, old) THEN SubSeq(s, i + Len(old), Len(s))
    ELSE << s[i] >> \o RemoveFirstFrom(s, i + 1, old)

ReplaceOnce(s, old) == RemoveFirstFrom(s, 1, old)

\* str.replace(old, "")
Replace(s, old) == RemoveAllFrom(s, 1, old)

\* str.title(): a letter that follows a non-letter is upper-cased, every
\* other letter lower-cased
Title(s) ==
    [ i \in 1..Len(s) |->
        IF i = 1 \/ ~IsLetter(s[i - 1]) THEN ToUpper(s[i]) ELSE ToLower(s[i]) ]

(***************************************************************************)
(* Configuration.                                                          *)
(***************************************************************************)
Milk == << "M", "i", "l", "k" >>
Bread == << "B", "r", "e", "a", "d" >>
Eggs == << "E", "g", "g", "s" >>
Bananas == << "B", "a", "n", "a", "n", "a", "s" >>
Curd == << "C", "u", "r", "d" >>
Toothpaste == << "T", "o", "o", "t", "h", "p", "a", "s", "t", "e" >>
Rice == << "R", "i", "c", "e" >>
Oil == << "O", "i", "l" >>

VALID_ITEMS == << Milk, Bread, Eggs, Bananas, Curd, Toothpaste, Rice, Oil >>

DEFAULT_LIFESPAN(item) ==
    CASE item = Milk -> 3
      [] item = Bread -> 4
      [] item = Eggs -> 7
      [] item = Bananas -> 5
      [] item = Curd -> 4
      [] item = Toothpaste -> 30
      [] item = Rice -> 30
      [] item = Oil -> 30

\* DEFAULT_LIFESPAN.get(item_name, 7)
FallbackLifespan == 7

DefaultLifespanGet(item) ==
    IF item \in Range(VALID_ITEMS) THEN DEFAULT_LIFESPAN(item)
    ELSE FallbackLifespan


(***************************************************************************)
(* parse_smart_input: regular expression, removal, spell check.            *)
(***************************************************************************)
\* last index of the run of characters of the class C that starts at i
\* (i - 1 when s[i] is not in C)
RECURSIVE RunEnd(_, _, _)
RunEnd(s, i, C) ==
    IF i <= Len(s) /\ s[i] \in C THEN RunEnd(s, i + 1, C) ELSE i - 1

\* the character classes \d, \s and [a-zA-Z]
DigitClass == Range(DigitChars)
SpaceClass == { " " }
LetterClass == Range(LowerCase) \cup Range(UpperCase)

\* re.search(r'(\d+\s*[a-zA-Z]+|\d+)', s): the leftmost match, the first
\* alternative preferred; << >> when nothing matches. Both alternatives
\* start with a digit, so the match starts at the first digit; the first
\* alternative matches there iff a letter follows the digit run and the
\* whitespace run after it.
QuantityMatch(s) ==
    IF \A i \in 1..Len(s) : ~IsDigit(s[i]) THEN << >>
    ELSE LET p == CHOOSE i \in 1..Len(s) :
                    IsDigit(s[i]) /\ \A k \in 1..(i - 1) : ~IsDigit(s[k])
             q == RunEnd(s, p, DigitClass)
             r == RunEnd(s, q + 1, SpaceClass)
             t == RunEnd(s, r + 1, LetterClass)
         IN  IF t > r THEN SubSeq(s, p, t) ELSE SubSeq(s, p, q)

\* quantity_match.group(0) if quantity_match else "1"
Quantity(raw_text) ==
    IF QuantityMatch(raw_text) = << >> THEN << "1" >>
    ELSE QuantityMatch(raw_text)

\* fault: only the first occurrence of the quantity is removed
RemoveQuantityOnce(raw_text, quantity) == ReplaceOnce(raw_text, quantity)

\* raw_text.replace(quantity, "")
RemoveQuantity(raw_text, quantity) == Replace(raw_text, quantity)

\* item_name = raw_text.replace(quantity, "").strip()
ItemName(raw_text) == Strip(RemoveQuantity(raw_text, Quantity(raw_text)))

\* difflib.SequenceMatcher: length of the common run of a from i and b from j
RECURSIVE MatchLen(_, _, _, _, _, _)
MatchLen(a, b, i, j, ahi, bhi) ==
    IF i < ahi /\ j < bhi /\ a[i] = b[j]
    THEN 1 + MatchLen(a, b, i + 1, j + 1, ahi, bhi) ELSE 0

SetMax(S) == CHOOSE x \in S : \A y \in S : y <= x

SetMin(S) == CHOOSE x \in S : \A y \in S : x <= y

\* SequenceMatcher.find_longest_match(alo, ahi, blo, bhi) without junk: the
\* longest block, of those the earliest in a, of those the earliest in b
\* (ranges are lo inclusive, hi exclusive)
FindLongestMatch(a, b, alo, ahi, blo, bhi) ==
    LET I == alo..(ahi - 1)
        J == blo..(bhi - 1)
        k == IF I = {} \/ J = {} THEN 0
             ELSE SetMax({ MatchLen(a, b, i, j, ahi, bhi) : i \in I, j \in J })
    IN  IF k = 0 THEN << alo, blo, 0 >>
        ELSE LET i == SetMin({ x \in I : \E y \in J :
                                 MatchLen(a, b, x, y, ahi, bhi) = k })
                 j == SetMin({ y \in J : MatchLen(a, b, i, y, ahi, bhi) = k })
             IN  << i, j, k >>

\* sum of the sizes of SequenceMatcher.get_matching_blocks()
RECURSIVE MatchedChars(_, _, _, _, _, _)
MatchedChars(a, b, alo, ahi, blo, bhi) ==
    LET m == FindLongestMatch(a, b, alo, ahi, blo, bhi)
    IN  IF m[3] = 0 THEN 0
        ELSE m[3] + MatchedChars(a, b, alo, m[1], blo, m[2])
                  + MatchedChars(a, b, m[1] + m[3], ahi, m[2] + m[3], bhi)

\* SequenceMatcher(None, x, word).ratio() as the fraction << 2*M, T >>
Ratio(x, word) ==
    << 2 * MatchedChars(x, word, 1, Len(x) + 1, 1, Len(word) + 1),
       Len(x) + Len(word) >>

\* ratio >= cutoff, cutoff = 0.6 = 6/10
CutoffNum == 6
CutoffDen == 10

MeetsCutoff(x, word) ==
    CutoffDen * Ratio(x, word)[1] >= CutoffNum * Ratio(x, word)[2]

\* (ratio, x) < (ratio', y) as Python compares the scored tuples
ScoreLess(x, y, word) ==
    LET rx == Ratio(x, word)
        ry == Ratio(y, word)
    IN  \/ rx[1] * ry[2] < ry[1] * rx[2]
        \/ rx[1] * ry[2] = ry[1] * rx[2] /\ StrLess(x, y)

\* difflib.get_close_matches(word, VALID_ITEMS, n=1, cutoff=0.6): the set
\* holding the best-scoring vocabulary entry that meets the cutoff, if any
GetCloseMatches(word) ==
    LET close == { x \in Range(VALID_ITEMS) : MeetsCutoff(x, word) }
    IN  { x \in close : \A y \in close : ~ScoreLess(x, y, word) }

FinalName(item_name) ==
    IF GetCloseMatches(Title(item_name)) # {}
    THEN CHOOSE x \in GetCloseMatches(Title(item_name)) : TRUE
    ELSE Title(item_name)

\* parse_smart_input(raw_text) -> (final_name, quantity)
parse_smart_input(raw_text) ==
    << FinalName(ItemName(raw_text)), Quantity(raw_text) >>


(***************************************************************************)
(* Dates: datetime.date ordinals and "YYYY-MM-DD" strings.                 *)
(***************************************************************************)
IsLeap(y) == y % 4 = 0 /\ (y % 100 # 0 \/ y % 400 = 0)

DaysInMonth(y, m) ==
    IF m = 2 THEN (IF IsLeap(y) THEN 29 ELSE 28)
    ELSE IF m \in {4, 6, 9, 11} THEN 30 ELSE 31

DaysBeforeYear(y) ==
    (y - 1) * 365 + ((y - 1) \div 4) - ((y - 1) \div 100) + ((y - 1) \div 400)

RECURSIVE DaysBeforeMonth(_, _)
DaysBeforeMonth(y, m) ==
    IF m = 1 THEN 0 ELSE DaysBeforeMonth(y, m - 1) + DaysInMonth(y, m - 1)

\* datetime.datetime.strptime(s, "%Y-%m-%d") as the ordinal of its day
ParseDate(s) == DaysBeforeYear(s[1]) + DaysBeforeMonth(s[1], s[2]) + s[3]

\* datetime.date.fromordinal(n) as (year, month, day)
OrdToYMD(ord) ==
    LET n0 == ord - 1
        n400 == n0 \div 146097
        r400 == n0 % 146097
        n100 == r400 \div 36524
        r100 == r400 % 36524
        n4 == r100 \div 1461
        r4 == r100 % 1461
        n1 == r4 \div 365
        n == r4 % 365
        year == n400 * 400 + 1 + n100 * 100 + n4 * 4 + n1
    IN  IF n1 = 4 \/ n100 = 4 THEN << year - 1, 12, 31 >>
        ELSE LET month == CHOOSE m \in 1..12 :
                              /\ DaysBeforeMonth(year, m) <= n
                              /\ n < DaysBeforeMonth(year, m) + DaysInMonth(year, m)
             IN  << year, month, n - DaysBeforeMonth(year, month) + 1 >>

\* str(date): the "YYYY-MM-DD" string of an ordinal
DateStr(ord) == OrdToYMD(ord)

\* the first day of the modelled window, as an ordinal
FirstDay == ParseDate(<< 2023, 12, 31 >>)

Days == FirstDay..(FirstDay + MaxDay)

DateStrings == { DateStr(d) : d \in Days }

(***************************************************************************)
(* calculate_dynamic_lifespan.                                             *)
(***************************************************************************)
\* fault: the history is not filtered by item
RECURSIVE ItemDatesUnfiltered(_, _)
ItemDatesUnfiltered(item_name, purchase_history) ==
    IF purchase_history = << >> THEN << >>
    ELSE << ParseDate(Head(purchase_history).date) >>
         \o ItemDatesUnfiltered(item_name, Tail(purchase_history))

\* [strptime(entry["date"]) for entry in purchase_history
\*  if entry["item"] == item_name]
RECURSIVE ItemDates(_, _)
ItemDates(item_name, purchase_history) ==
    IF purchase_history = << >> THEN << >>
    ELSE (IF Head(purchase_history).item = item_name
          THEN << ParseDate(Head(purchase_history).date) >> ELSE << >>)
         \o ItemDates(item_name, Tail(purchase_history))

\* insertion of x into an ascending sequence, after its equals
RECURSIVE InsertSorted(_, _)
InsertSorted(x, s) ==
    IF s = << >> THEN << x >>
    ELSE IF x < Head(s) THEN << x >> \o s
    ELSE << Head(s) >> \o InsertSorted(x, Tail(s))

RECURSIVE SortedFrom(_, _)
SortedFrom(s, acc) ==
    IF s = << >> THEN acc ELSE SortedFrom(Tail(s), InsertSorted(Head(s), acc))

\* fault: the dates are left in history order
Unsorted(dates) == dates

\* dates.sort()
Sort(dates) == SortedFrom(dates, << >>)

\* gaps: (dates[i] - dates[i-1]).days for i in range(1, len(dates))
Gaps(dates) == [ i \in 1..(Len(dates) - 1) |-> dates[i + 1] - dates[i] ]

RECURSIVE Sum(_)
Sum(s) == IF s = << >> THEN 0 ELSE Head(s) + Sum(Tail(s))

\* int(num / den): the quotient truncated toward zero
IntTrunc(num, den) ==
    IF num >= 0 THEN num \div den ELSE -((-num) \div den)

\* int(statistics.mean(gaps))
IntMean(gaps) == IntTrunc(Sum(gaps), Len(gaps))

\* the least number of purchases an estimate is computed from (len(dates) < 2)
MinPurchases == 2

calculate_dynamic_lifespan(item_name, purchase_history) ==
    LET dates == Sort(ItemDates(item_name, purchase_history))
    IN  IF Len(dates) < MinPurchases THEN DefaultLifespanGet(item_name)
        ELSE IF Gaps(dates) # << >> THEN IntMean(Gaps(dates))
        ELSE DefaultLifespanGet(item_name)


(***************************************************************************)
(* The snapshot (load_data / save_data) and the script's state.            *)
(***************************************************************************)
VARIABLES
    shopping_list,  \* data["shopping_list"]: list of entry strings
    pantry,         \* data["pantry"]: insertion-ordered dict, as a sequence
                    \* of [item, status, bought_date]
    history,        \* data["history"]: list of [item, date]
    today,          \* datetime.date.today(), as an ordinal
    suggestions,    \* the restock scan of the last script run
    stats,          \* the lifespan table of the last script run (tab 3)
    event,          \* the widget that triggered the last script run
    logged_in,      \* st.session_state["logged_in"]
    raw_input,      \* the text handed to parse_smart_input
    parsed          \* what parse_smart_input made of raw_input

vars ==
    << shopping_list, pantry, history, today, suggestions, stats, event,
       logged_in, raw_input, parsed >>

data == << shopping_list, pantry, history >>

InStock == "In Stock"
Low == "Low"

\* f"{item} ({qty})"
FullEntry(item, qty) == item \o << " ", "(" >> \o qty \o << ")" >>

\* entry.split(" (")[0]: the text before the first " ("
RECURSIVE SplitHead(_, _)
SplitHead(entry, i) ==
    IF i > Len(entry) \/ StartsAt(entry, i, << " ", "(" >>)
    THEN SubSeq(entry, 1, i - 1)
    ELSE SplitHead(entry, i + 1)

EntryItemName(entry) == SplitHead(entry, 1)

\* list.remove(x): the first occurrence goes
RECURSIVE ListRemove(_, _)
ListRemove(list, x) ==
    IF list = << >> THEN << >>
    ELSE IF Head(list) = x THEN Tail(list)
    ELSE << Head(list) >> \o ListRemove(Tail(list), x)

PantryKeys(p) == { p[i].item : i \in 1..Len(p) }

PantryGet(p, item) == p[CHOOSE i \in 1..Len(p) : p[i].item = item]

\* data["pantry"][item_name] = {...}: a present key keeps its place, a new
\* key goes last
PantryPut(p, item, status, bought_date) ==
    LET rec == [ item |-> item, status |-> status, bought_date |-> bought_date ]
    IN  IF item \in PantryKeys(p)
        THEN [ i \in 1..Len(p) |-> IF p[i].item = item THEN rec ELSE p[i] ]
        ELSE Append(p, rec)

(***************************************************************************)
(* Tab 1, the prediction engine (the restock scan).                        *)
(***************************************************************************)
\* days_passed >= lifespan * 0.8: for a lifespan that is a multiple of 5 the
\* double lifespan * 0.8 is the integer 4 * lifespan / 5 itself (so for every
\* lifespan up to 2,000,000), and for any other lifespan it is no integer,
\* so the comparison is that of days_passed with 8 * lifespan / 10
ThresholdNum == 8
ThresholdDen == 10

\* fault: the threshold is exclusive
CrossedStrictly(days_passed, lifespan) ==
    ThresholdDen * days_passed > ThresholdNum * lifespan

Crossed(days_passed, lifespan) ==
    ThresholdDen * days_passed >= ThresholdNum * lifespan

\* fault: the status is not looked at
ScansAnyStatus(details) == TRUE

\* if details["status"] == "In Stock"
Scanned(details) == details.status = InStock

\* the suggestion made for one pantry entry: << >> or one [item, lifespan]
Suggestion(details, hist, day) ==
    LET lifespan == calculate_dynamic_lifespan(details.item, hist)
        days_passed == day - ParseDate(details.bought_date)
    IN  IF Scanned(details) /\ Crossed(days_passed, lifespan)
        THEN << [ item |-> details.item, lifespan |-> lifespan ] >>
        ELSE << >>

\* for item, details in data["pantry"].items(): ... suggestions.append(...)
RECURSIVE predictRestock(_, _, _)
predictRestock(p, hist, day) ==
    IF p = << >> THEN << >>
    ELSE Suggestion(Head(p), hist, day) \o predictRestock(Tail(p), hist, day)

(***************************************************************************)
(* Tab 3, the lifespan table.                                              *)
(***************************************************************************)
HistoryItems(hist) == { hist[i].item : i \in 1..Len(hist) }

PurchaseCount(item, hist) ==
    Cardinality({ i \in 1..Len(hist) : hist[i].item = item })

LifespanStats(hist) ==
    { [ Item |-> item,
        Lifespan |-> calculate_dynamic_lifespan(item, hist),
        Source |-> IF PurchaseCount(item, hist) >= MinPurchases
                   THEN "AI (History)" ELSE "Hardcoded (Default)" ]
      : item \in HistoryItems(hist) }


(***************************************************************************)
(* The script runs: one action per widget that triggers a run of main().   *)
(* A handler that ends in st.rerun() includes the run it starts, so after  *)
(* every action the scan and the lifespan table are those of the snapshot  *)
(* the action saved.                                                       *)
(***************************************************************************)
Soap == << "S", "o", "a", "p" >>

\* the texts the user types into the form
RawInputs ==
    { << "m", "i", "l", "k" >>,
      << "M", "i", "l", "k" >>,
      << "2", "L", " ", "m", "l", "i", "k" >>,
      << "s", "o", "a", "p" >> }

NoParse == [ quantity |-> << >>, item_name |-> << >>, final_name |-> << >> ]

\* load_data() without a database file
EmptySnapshot ==
    /\ shopping_list = << >>
    /\ pantry = << >>
    /\ history = << >>

Init ==
    /\ EmptySnapshot
    /\ today = FirstDay
    /\ suggestions = << >>
    /\ stats = { }
    /\ event = "start"
    /\ logged_in = FALSE
    /\ raw_input = << >>
    /\ parsed = NoParse

\* what every complete run of main() displays
Render ==
    /\ suggestions' = predictRestock(pantry', history', today')
    /\ stats' = LifespanStats(history')

\* "Login as Rahul"
Login ==
    /\ ~logged_in
    /\ logged_in' = TRUE
    /\ event' = "login"
    /\ UNCHANGED << shopping_list, pantry, history, today, raw_input, parsed >>
    /\ Render

\* the pantry with every item the scan flags marked Low
MarkedLow(p, hist, day) ==
    [ i \in 1..Len(p) |->
        IF Suggestion(p[i], hist, day) # << >>
        THEN [ p[i] EXCEPT !.status = Low ] ELSE p[i] ]

\* fault: the scan writes the status of what it flags
RerunMarkingLow ==
    /\ logged_in
    /\ event' = "rerun"
    /\ pantry' = MarkedLow(pantry, history, today)
    /\ suggestions' = predictRestock(pantry, history, today)
    /\ stats' = LifespanStats(history)
    /\ UNCHANGED << shopping_list, history, today, logged_in, raw_input, parsed >>

\* a run no widget of the snapshot triggered (a page refresh)
Rerun ==
    /\ logged_in
    /\ event' = "rerun"
    /\ UNCHANGED << shopping_list, pantry, history, today, logged_in,
                    raw_input, parsed >>
    /\ Render

\* fault: the entry is appended without the membership test
AddToListAlways(list, full_entry) == Append(list, full_entry)

\* if full_entry not in data["shopping_list"]: append
AddToList(list, full_entry) ==
    IF full_entry \in Range(list) THEN list ELSE Append(list, full_entry)

\* item, qty = parse_smart_input(raw_input); full_entry = f"{item} ({qty})",
\* tabulated once for the texts of the model
EntryTable ==
    [ raw \in RawInputs |->
        FullEntry(parse_smart_input(raw)[1], parse_smart_input(raw)[2]) ]

EntryOf(raw) == EntryTable[raw]

\* "Add to List" with the text raw in the form; a new entry is saved and
\* announced (st.toast, st.rerun), a duplicate is passed over in silence
AddItem(raw) ==
    /\ logged_in
    /\ raw # << >>
    /\ Len(shopping_list) < MaxList \/ EntryOf(raw) \in Range(shopping_list)
    /\ shopping_list' = AddToList(shopping_list, EntryOf(raw))
    /\ event' = IF EntryOf(raw) \in Range(shopping_list) THEN "add_duplicate"
                ELSE "add"
    /\ UNCHANGED << pantry, history, today, logged_in, raw_input, parsed >>
    /\ Render

\* "Clear List", shown when the list is not empty
ClearList ==
    /\ logged_in
    /\ shopping_list # << >>
    /\ shopping_list' = << >>
    /\ event' = "clear"
    /\ UNCHANGED << pantry, history, today, logged_in, raw_input, parsed >>
    /\ Render

\* fault: the item's records are overwritten instead of one appended
RecordPurchaseInPlace(hist, item_name, date) ==
    IF item_name \in HistoryItems(hist)
    THEN [ i \in 1..Len(hist) |->
             IF hist[i].item = item_name
             THEN [ item |-> item_name, date |-> date ] ELSE hist[i] ]
    ELSE Append(hist, [ item |-> item_name, date |-> date ])

\* data["history"].append({"item": item_name, "date": str(today)})
RecordPurchase(hist, item_name, date) ==
    Append(hist, [ item |-> item_name, date |-> date ])

\* fault: a key already in the pantry keeps its old bought_date
StockPantryKeepDate(p, item_name, date) ==
    IF item_name \in PantryKeys(p)
    THEN PantryPut(p, item_name, InStock, PantryGet(p, item_name).bought_date)
    ELSE PantryPut(p, item_name, InStock, date)

\* data["pantry"][item_name] = {"status": "In Stock", "bought_date": str(today)}
StockPantry(p, item_name, date) == PantryPut(p, item_name, InStock, date)

\* the checkbox "Buy <entry>"
BuyEntry(entry) ==
    /\ logged_in
    /\ entry \in Range(shopping_list)
    /\ Len(history) < MaxHist
    /\ shopping_list' = ListRemove(shopping_list, entry)
    /\ pantry' = StockPantry(pantry, EntryItemName(entry), DateStr(today))
    /\ history' = RecordPurchase(history, EntryItemName(entry), DateStr(today))
    /\ event' = "buy"
    /\ UNCHANGED << today, logged_in, raw_input, parsed >>
    /\ Render

\* midnight: datetime.date.today() moves on; nothing runs
AdvanceDay ==
    /\ today < FirstDay + MaxDay
    /\ today' = today + 1
    /\ event' = "tick"
    /\ UNCHANGED << shopping_list, pantry, history, suggestions, stats,
                    logged_in, raw_input, parsed >>

Next ==
    \/ Login
    \/ Rerun
    \/ \E raw \in RawInputs : AddItem(raw)
    \/ ClearList
    \/ \E entry \in Range(shopping_list) : BuyEntry(entry)
    \/ AdvanceDay

Spec == Init /\ [][Next]_vars


(***************************************************************************)
(* The pantry life cycle: as Spec, with the acknowledgement of a restock   *)
(* suggestion, which src/app.py does not contain, taken from the design    *)
(* document: a flagged In Stock item is marked Low.                        *)
(***************************************************************************)
Flagged(item) == \E i \in 1..Len(suggestions) : suggestions[i].item = item

MarkLow(item) ==
    /\ logged_in
    /\ item \in PantryKeys(pantry)
    /\ PantryGet(pantry, item).status = InStock
    /\ Flagged(item)
    /\ pantry' = PantryPut(pantry, item, Low, PantryGet(pantry, item).bought_date)
    /\ event' = "low"
    /\ UNCHANGED << shopping_list, history, today, logged_in, raw_input, parsed >>
    /\ Render

\* the texts typed in the life-cycle specification: one listed item and one
\* unlisted item
LifecycleInputs == { << "m", "i", "l", "k" >>, << "s", "o", "a", "p" >> }

NextLifecycle ==
    \/ Login
    \/ Rerun
    \/ \E raw \in LifecycleInputs : AddItem(raw)
    \/ ClearList
    \/ \E entry \in Range(shopping_list) : BuyEntry(entry)
    \/ AdvanceDay
    \/ \E item \in PantryKeys(pantry) : MarkLow(item)

SpecLifecycle == Init /\ [][NextLifecycle]_vars

(***************************************************************************)
(* Loaded snapshots: load_data() returns whatever the database file holds, *)
(* and a run of main() scans it and tabulates the lifespans.               *)
(***************************************************************************)
BoundedSeq(S, n) == UNION { [ 1..k -> S ] : k \in 0..n }

ScanItems == { Bananas, Soap }

\* the items of the history that comes with a pantry
ScanHistoryItems == { Soap }

EstimateItems == { Milk, Soap }

PantryRecords(items) ==
    [ item : items, status : { InStock, Low }, bought_date : DateStrings ]

HistoryRecords(items) == [ item : items, date : DateStrings ]

\* a dict holds each key once
PantrySnapshots ==
    { p \in BoundedSeq(PantryRecords(ScanItems), MaxPantry) :
        \A i, j \in 1..Len(p) : p[i].item = p[j].item => i = j }

ScanDays == { FirstDay + MaxDay - 1, FirstDay + MaxDay }

InitScan ==
    /\ pantry \in PantrySnapshots
    /\ history \in BoundedSeq(HistoryRecords(ScanHistoryItems), MaxScanHist)
    /\ today \in ScanDays

InitEstimate ==
    /\ pantry = << >>
    /\ history \in BoundedSeq(HistoryRecords(EstimateItems), MaxHist)
    /\ today = FirstDay + MaxDay

InitSnapshot ==
    /\ InitScan \/ InitEstimate
    /\ shopping_list = << >>
    /\ suggestions = << >>
    /\ stats = { }
    /\ event = "start"
    /\ logged_in = TRUE
    /\ raw_input = << >>
    /\ parsed = NoParse

SpecSnapshot == InitSnapshot /\ [][Rerun]_vars

(***************************************************************************)
(* parse_smart_input on its own: every text over a small alphabet.         *)
(***************************************************************************)
TextAlphabet == { "1", "2", " ", "k", "a" }

Texts == BoundedSeq(TextAlphabet, MaxText)

InitParse ==
    /\ EmptySnapshot
    /\ today = FirstDay
    /\ suggestions = << >>
    /\ stats = { }
    /\ event = "start"
    /\ logged_in = TRUE
    /\ raw_input \in Texts
    /\ parsed = NoParse

ParseInput ==
    /\ event = "start"
    /\ parsed' = [ quantity |-> parse_smart_input(raw_input)[2],
                   item_name |-> ItemName(raw_input),
                   final_name |-> parse_smart_input(raw_input)[1] ]
    /\ event' = "parse"
    /\ UNCHANGED << shopping_list, pantry, history, today, suggestions, stats,
                    logged_in, raw_input >>

SpecParse == InitParse /\ [][ParseInput]_vars


(***************************************************************************)
(* Helpers of the properties.                                              *)
(***************************************************************************)
Elapsed(details) == today - ParseDate(details.bought_date)

Lifespan(item) == calculate_dynamic_lifespan(item, history)

SuggestedLifespans(item) ==
    { suggestions[i].lifespan :
        i \in { k \in 1..Len(suggestions) : suggestions[k].item = item } }

DateSet(item, hist) ==
    { ParseDate(hist[i].date) : i \in { k \in 1..Len(hist) : hist[k].item = item } }

IndexPermutations(n) ==
    { f \in [ 1..n -> 1..n ] : \A i, j \in 1..n : f[i] = f[j] => i = j }

Reorderings(hist) ==
    { [ i \in 1..Len(hist) |-> hist[f[i]] ] : f \in IndexPermutations(Len(hist)) }

RemoveAt(s, k) == SubSeq(s, 1, k - 1) \o SubSeq(s, k + 1, Len(s))

InsertAt(s, k, x) == SubSeq(s, 1, k - 1) \o << x >> \o SubSeq(s, k, Len(s))

AllItems == ScanItems \cup EstimateItems

\* the histories that differ from hist in records of other items only: one
\* such record removed, one added anywhere, or any reordering of the whole
OtherItemVariants(hist, item) ==
    { RemoveAt(hist, k) : k \in { i \in 1..Len(hist) : hist[i].item # item } }
    \cup { InsertAt(hist, k, r) :
             k \in 1..(Len(hist) + 1),
             r \in HistoryRecords(AllItems \ { item }) }
    \cup Reorderings(hist)

IsPrefix(s, t) == Len(s) <= Len(t) /\ SubSeq(t, 1, Len(s)) = s

\* the values the source's table gives, written out
TableValue(item) ==
    IF item = Milk THEN 3 ELSE IF item = Bananas THEN 5 ELSE 7

(***************************************************************************)
(* C1. After a run of the script on any loaded snapshot, a pantry item     *)
(* whose status is In Stock is flagged if and only if 5 * elapsed days >=  *)
(* 4 * its estimated lifespan (elapsed >= 0.8 * lifespan, inclusive), and  *)
(* the suggestion carries that lifespan.                                   *)
(***************************************************************************)
C1_InclusiveThreshold ==
    event = "rerun" =>
        \A i \in 1..Len(pantry) :
            pantry[i].status = InStock =>
                /\ Flagged(pantry[i].item)
                     <=> 5 * Elapsed(pantry[i]) >= 4 * Lifespan(pantry[i].item)
                /\ SuggestedLifespans(pantry[i].item)
                     \subseteq { Lifespan(pantry[i].item) }

\* an In Stock item exactly at 0.8 x a positive lifespan is flagged, next to
\* an In Stock item one day short of its threshold that is not
C1_Witness ==
    /\ event = "rerun"
    /\ \E i, j \in 1..Len(pantry) :
        /\ pantry[i].status = InStock
        /\ Lifespan(pantry[i].item) > 0
        /\ 5 * Elapsed(pantry[i]) = 4 * Lifespan(pantry[i].item)
        /\ Flagged(pantry[i].item)
        /\ pantry[j].status = InStock
        /\ 5 * Elapsed(pantry[j]) < 4 * Lifespan(pantry[j].item)
        /\ 5 * (Elapsed(pantry[j]) + 1) >= 4 * Lifespan(pantry[j].item)
        /\ ~Flagged(pantry[j].item)

(***************************************************************************)
(* C2. After a run of the script on any loaded snapshot, no pantry item    *)
(* whose status is Low is flagged, whatever its bought_date and lifespan.  *)
(***************************************************************************)
C2_LowNeverFlagged ==
    event = "rerun" =>
        \A i \in 1..Len(pantry) :
            pantry[i].status = Low => ~Flagged(pantry[i].item)

\* a Low item past its threshold, scanned and not flagged, while an In Stock
\* item is flagged
C2_Witness ==
    /\ event = "rerun"
    /\ suggestions # << >>
    /\ \E i \in 1..Len(pantry) :
        /\ pantry[i].status = Low
        /\ 5 * Elapsed(pantry[i]) >= 4 * Lifespan(pantry[i].item)
        /\ ~Flagged(pantry[i].item)

(***************************************************************************)
(* C3. For an item with fewer than 2 history records, every lifespan the   *)
(* run computes (tab 3's table, the scan's suggestions) is the item's      *)
(* DEFAULT_LIFESPAN value, or 7 for an unlisted item, and the estimate is  *)
(* the same on every history that differs in other items' records only.    *)
(***************************************************************************)
C3_DefaultBelowTwoRecords ==
    event = "rerun" =>
        \A item \in AllItems :
            PurchaseCount(item, history) < 2 =>
                /\ \A st \in stats : st.Item = item =>
                       st.Lifespan = TableValue(item)
                /\ SuggestedLifespans(item) \subseteq { TableValue(item) }
                /\ \A h2 \in OtherItemVariants(history, item) :
                       calculate_dynamic_lifespan(item, h2) = TableValue(item)

\* an item bought once among two purchases of another item, tabulated with
\* its default
C3_Witness ==
    /\ event = "rerun"
    /\ \E st \in stats :
        /\ PurchaseCount(st.Item, history) = 1
        /\ st.Lifespan = TableValue(st.Item)
        /\ st.Source = "Hardcoded (Default)"
        /\ \E other \in stats :
            /\ PurchaseCount(other.Item, history) = 2
            /\ other.Lifespan # TableValue(st.Item)

(***************************************************************************)
(* C4. For an item with at least 2 history records, the tabulated lifespan *)
(* is (latest date - earliest date) div (count - 1), the truncated mean of *)
(* the gaps between its dates in ascending order, and the estimate is the  *)
(* same for every permutation of the history.                              *)
(***************************************************************************)
C4_MeanGapAnyOrder ==
    event = "rerun" =>
        \A st \in stats :
            PurchaseCount(st.Item, history) >= 2 =>
                /\ st.Lifespan =
                     (SetMax(DateSet(st.Item, history))
                        - SetMin(DateSet(st.Item, history)))
                     \div (PurchaseCount(st.Item, history) - 1)
                /\ st.Source = "AI (History)"
                /\ \A h2 \in Reorderings(history) :
                       calculate_dynamic_lifespan(st.Item, h2) = st.Lifespan

\* Milk bought on 2024-01-04 and, recorded after it, on 2024-01-01: 3 days
C4_Witness ==
    /\ event = "rerun"
    /\ Len(history) = 3
    /\ history[1] = [ item |-> Milk, date |-> << 2024, 1, 4 >> ]
    /\ history[2].item # Milk
    /\ history[3] = [ item |-> Milk, date |-> << 2024, 1, 1 >> ]
    /\ [ Item |-> Milk, Lifespan |-> 3, Source |-> "AI (History)" ] \in stats


(***************************************************************************)
(* C5. Per pantry item the only status changes are absent -> In Stock (a   *)
(* purchase), In Stock -> Low (a flagged item acknowledged) and Low -> In  *)
(* Stock (a purchase, which stamps today's date); an item that is Low      *)
(* after a step is not flagged by that step's scan.                        *)
(***************************************************************************)
StatusIn(p, item) ==
    IF item \in PantryKeys(p) THEN PantryGet(p, item).status ELSE "absent"

C5_Step(item) ==
    LET before == StatusIn(pantry, item)
        after == StatusIn(pantry', item)
    IN  /\ before = "absent" => after \in { "absent", InStock }
        /\ before = InStock => after \in { InStock, Low }
        /\ before = Low => after \in { Low, InStock }
        /\ before # InStock /\ after = InStock =>
              /\ event' = "buy"
              /\ PantryGet(pantry', item).bought_date = DateStr(today)
        /\ before = InStock /\ after = Low =>
              \E i \in 1..Len(suggestions) : suggestions[i].item = item
        /\ after = Low =>
              \A i \in 1..Len(suggestions') : suggestions'[i].item # item

NoDuplicates(list) == \A i, j \in 1..Len(list) : list[i] = list[j] => i = j

\* the entries of the texts of the model, written out: "milk" and "Milk"
\* give "Milk (1)", "2L mlik" gives "Milk (2L)", "soap" gives "Soap (1)"
WrittenEntry ==
    [ raw \in RawInputs |->
        IF raw = << "s", "o", "a", "p" >>
        THEN << "S", "o", "a", "p", " ", "(", "1", ")" >>
        ELSE IF Len(raw) = 4
        THEN << "M", "i", "l", "k", " ", "(", "1", ")" >>
        ELSE << "M", "i", "l", "k", " ", "(", "2", "L", ")" >> ]

C6_AddStep ==
    event' \in { "add", "add_duplicate" } =>
        \E raw \in RawInputs :
            IF \E i \in 1..Len(shopping_list) : shopping_list[i] = WrittenEntry[raw]
            THEN shopping_list' = shopping_list /\ event' = "add_duplicate"
            ELSE shopping_list' = shopping_list \o << WrittenEntry[raw] >>
                 /\ event' = "add"

C6_UniqueEntries == [] NoDuplicates(shopping_list) /\ [][ C6_AddStep ]_vars

\* a full list on which an entry was submitted a second time
C6_Witness ==
    /\ event = "add_duplicate"
    /\ Len(shopping_list) = MaxList
    /\ NoDuplicates(shopping_list)

(***************************************************************************)
(* C7. Every step leaves the history it found as a prefix of the history   *)
(* it leaves; a purchase appends exactly one record, the bought entry's    *)
(* item with today's date, and no other step changes the history.          *)
(***************************************************************************)
C7_Step ==
    /\ IsPrefix(history, history')
    /\ event' # "buy" => history' = history
    /\ event' = "buy" =>
          \E k \in 1..Len(shopping_list) :
              /\ shopping_list' = RemoveAt(shopping_list, k)
              /\ Len(history') = Len(history) + 1
              /\ history'[Len(history')] =
                    [ item |-> EntryItemName(shopping_list[k]),
                      date |-> DateStr(today) ]

C7_AppendOnly == [][ C7_Step ]_vars

\* the same item bought a second time on a later day
C7_Witness ==
    /\ event = "buy"
    /\ Len(history) >= 2
    /\ history[Len(history)].item = history[1].item
    /\ history[Len(history)].date # history[1].date
    /\ history[Len(history)].date = DateStr(today)

(***************************************************************************)
(* C8. A run of the script on a snapshot changes neither the pantry, the   *)
(* history nor the shopping list, and a second run on the same snapshot    *)
(* and date flags the same items in the same order.                        *)
(***************************************************************************)
C8_Step ==
    /\ pantry' = pantry
    /\ history' = history
    /\ shopping_list' = shopping_list
    /\ event = "rerun" => suggestions' = suggestions /\ stats' = stats

C8_ScanIdempotent == [][ C8_Step ]_vars

\* a scan that flagged two items, one of them with a learned lifespan
C8_Witness ==
    /\ event = "rerun"
    /\ Len(suggestions) = 2
    /\ suggestions[1].item # suggestions[2].item
    /\ \E st \in stats : st.Source = "AI (History)"
    /\ suggestions = predictRestock(pantry, history, today)


(***************************************************************************)
(* Helpers of C9, stated without the parser's own operators.               *)
(***************************************************************************)
HasDigit(raw) == \E i \in 1..Len(raw) : raw[i] \in Range(DigitChars)

CharAt(raw, i) == IF i \in 1..Len(raw) THEN raw[i] ELSE "end"

\* q is the first run of digits of raw, extended by the whitespace and the
\* letters that follow it when letters do follow; "1" when raw has no digit
IsFirstQuantity(raw, q) ==
    IF ~HasDigit(raw) THEN q = << "1" >>
    ELSE \E p \in 1..Len(raw), nd \in 1..Len(raw), ns, nl \in 0..Len(raw) :
            LET e == p + nd + ns + nl - 1
            IN  /\ e <= Len(raw)
                /\ q = SubSeq(raw, p, e)
                /\ \A i \in 1..(p - 1) : ~IsDigit(raw[i])
                /\ \A i \in p..(p + nd - 1) : IsDigit(raw[i])
                /\ \A i \in (p + nd)..(p + nd + ns - 1) : IsSpace(raw[i])
                /\ \A i \in (p + nd + ns)..e : IsLetter(raw[i])
                /\ ~IsDigit(CharAt(raw, p + nd))
                /\ nl > 0 => ~IsLetter(CharAt(raw, e + 1))
                /\ nl = 0 =>
                      /\ ns = 0
                      /\ \A r \in (e + 1)..(Len(raw) + 1) :
                            (\A i \in (e + 1)..(r - 1) : IsSpace(raw[i]))
                                => ~IsLetter(CharAt(raw, r))

Occurrences(raw, q) == { i \in 1..Len(raw) : StartsAt(raw, i, q) }

\* raw without the characters of the occurrences of q that start in P
Uncovered(raw, q, P) ==
    LET keep == { i \in 1..Len(raw) :
                    \A o \in P : i < o \/ i >= o + Len(q) }
        F[i \in 0..Len(raw)] ==
            IF i = 0 THEN << >>
            ELSE IF i \in keep THEN Append(F[i - 1], raw[i]) ELSE F[i - 1]
    IN  F[Len(raw)]

\* P holds every occurrence of q in raw, scanning from the left and
\* skipping the occurrences that overlap one already taken
EveryOccurrence(raw, q, P) ==
    /\ P \subseteq Occurrences(raw, q)
    /\ \A o1, o2 \in P : o1 < o2 => o1 + Len(q) <= o2
    /\ \A i \in Occurrences(raw, q) \ P :
          \E o \in P : o < i /\ i < o + Len(q)

\* P holds the first occurrence of q in raw alone
FirstOccurrence(raw, q, P) ==
    IF Occurrences(raw, q) = { } THEN P = { }
    ELSE P = { SetMin(Occurrences(raw, q)) }

(***************************************************************************)
(* C9 as claimed. The quantity is the first run of digits with the letters *)
(* that follow it ("1" without a digit), and the item name is the raw text *)
(* with exactly one occurrence of the quantity, the first, removed and     *)
(* then trimmed.                                                           *)
(***************************************************************************)
C9_RemovesOneOccurrence ==
    event = "parse" =>
        /\ IsFirstQuantity(raw_input, parsed.quantity)
        /\ \E P \in SUBSET Occurrences(raw_input, parsed.quantity) :
              /\ FirstOccurrence(raw_input, parsed.quantity, P)
              /\ parsed.item_name =
                    Strip(Uncovered(raw_input, parsed.quantity, P))

(***************************************************************************)
(* C9 as amended. The quantity is the first run of digits with the         *)
(* whitespace and letters that follow it ("1" without a digit), and the    *)
(* item name is the raw text with every occurrence of the quantity removed *)
(* and then trimmed: a later numeric run stays in the name only as far as  *)
(* it does not contain the quantity.                                       *)
(***************************************************************************)
C9_RemovesEveryOccurrence ==
    event = "parse" =>
        /\ IsFirstQuantity(raw_input, parsed.quantity)
        /\ \E P \in SUBSET Occurrences(raw_input, parsed.quantity) :
              /\ EveryOccurrence(raw_input, parsed.quantity, P)
              /\ parsed.item_name =
                    Strip(Uncovered(raw_input, parsed.quantity, P))

\* a text with two numeric runs in which the quantity occurs twice, parsed
\* to a name that holds neither
C9_Witness ==
    /\ event = "parse"
    /\ Cardinality(Occurrences(raw_input, parsed.quantity)) = 2
    /\ parsed.item_name # << >>
    /\ ~HasDigit(parsed.item_name)
    /\ \E i \in 1..Len(raw_input) : IsSpace(raw_input[i])

(***************************************************************************)
(* C10. From the empty snapshot, with a clock that never runs backwards,   *)
(* every pantry key is In Stock, has a history record, and carries the     *)
(* latest date of its history records; a purchase changes no pantry entry  *)
(* but the bought item's and takes only the bought entry off the list,     *)
(* the others keeping their order.                                         *)
(***************************************************************************)
C10_PantryMatchesHistory ==
    \A i \in 1..Len(pantry) :
        /\ pantry[i].status = InStock
        /\ DateSet(pantry[i].item, history) # { }
        /\ ParseDate(pantry[i].bought_date)
              = SetMax(DateSet(pantry[i].item, history))

OtherEntries(p, item) ==
    LET F[i \in 0..Len(p)] ==
            IF i = 0 THEN << >>
            ELSE IF p[i].item # item THEN Append(F[i - 1], p[i]) ELSE F[i - 1]
    IN  F[Len(p)]

C10_BuyStep ==
    event' = "buy" =>
        \E k \in 1..Len(shopping_list) :
            /\ shopping_list' = RemoveAt(shopping_list, k)
            /\ OtherEntries(pantry', EntryItemName(shopping_list[k]))
                  = OtherEntries(pantry, EntryItemName(shopping_list[k]))
            /\ EntryItemName(shopping_list[k]) \in PantryKeys(pantry')

=============================================================================
